---- MODULE Spec2Model ----
(***************************************************************************)
(* Model of the Logger of remoji-bot/core: the static registry of logger   *)
(* instances (getLogger, getDefault), the writer (log) and the 7-zip       *)
(* archival of old log files guarded by the static flag Logger.isArchiving;*)
(* and of getenv, the reader of environment variables.                     *)
(* The file system, the console, the clock and the compression engine are  *)
(* the environment; the model draws their outcomes nondeterministically.   *)
(***************************************************************************)
EXTENDS Integers, Sequences, FiniteSets, TLC

(* ------------------------------ bounds -------------------------------- *)

\* Calls of log made by the host (the follow-up call of the end handler is not counted).
MaxLogs == 2
\* Days before the first instant of the run whose log file may already be in a directory.
OldDays == 2
\* UTC day changes during the run.
MaxRollovers == 1
\* Logger objects ever constructed.
MaxInstances == 3
\* Characters of the value of an environment variable.
MaxLen == 3

(* ------------------------- constants of the code ---------------------- *)

VERBOSE == 0
INFO == 1
WARNING == 2
ERROR == 3

LogLevel == {VERBOSE, INFO, WARNING, ERROR}

\* chalk.hex(h): the colour function of h; ApplyColor is its application to a text.
ChalkHex(h) == [hex |-> h]

ApplyColor(chalk, text) == [color |-> chalk.hex, text |-> text]

DEFAULT_COLORS ==
  [l \in LogLevel |->
     CASE l = VERBOSE -> ChalkHex("#AAAAAA")
       [] l = INFO    -> ChalkHex("#00AAAA")
       [] l = WARNING -> ChalkHex("#FFFF55")
       [] l = ERROR   -> ChalkHex("#FF5555")]

ERROR_TYPES ==
  [l \in LogLevel |->
     CASE l = VERBOSE -> "D"
       [] l = INFO    -> "I"
       [] l = WARNING -> "W"
       [] l = ERROR   -> "E"]

\* path.join(appRoot.path, "logs")
DefaultDir == "logs"

(* ------------------------------ inputs -------------------------------- *)

Namespaces == {"remoji", "db"}

Dirs == {DefaultDir, "alt"}

\* options.colors left out
NoColors == <<>>

CustomColors == [l \in LogLevel |-> IF l = ERROR THEN "#FF0000" ELSE "#FFFFFF"]

\* creationOptions left out, or given with colors and logDir present or not
NoOptions == [colors |-> NoColors, logDir |-> ""]

CustomOptions == [colors |-> CustomColors, logDir |-> "alt"]

LoggerOptions == [colors : {NoColors, CustomColors}, logDir : {"", "alt"}]

Contents == {"hello"}

\* The levels the host logs at.
Levels == {INFO, ERROR}

\* What appRoot.require("./package.json").name gives: it throws, or yields a name.
PackageLookups == {"throws", "", "remoji"}

(* ------------------------------- time --------------------------------- *)

Days == 0 .. (OldDays + MaxRollovers)

\* The times of day at which the clock is read.
TimesOfDay == <<"00:00:00.000", "12:00:00.000">>

\* An instant: a day and a time of that day. The run starts after the old days.
Instants == [day : OldDays .. (OldDays + MaxRollovers), time : 1 .. Len(TimesOfDay)]

FirstInstant == [day |-> OldDays, time |-> 1]

Later(a, b) == a.day < b.day \/ (a.day = b.day /\ a.time < b.time)

DayOf(instant) == instant.day

Digit == <<"0", "1", "2", "3", "4", "5", "6", "7", "8", "9">>

\* The calendar date of day number d as YYYY-MM-DD; day 0 is 2020-01-01.
DateString(d) == "2020-01-" \o Digit[((d + 1) \div 10) + 1] \o Digit[((d + 1) % 10) + 1]

\* DateTime.toISODate()
ToISODate(instant) == DateString(DayOf(instant))

\* DateTime.toISO(): date, time of day and the UTC designator
ToISO(instant) ==
  [date |-> DateString(DayOf(instant)), time |-> TimesOfDay[instant.time], zone |-> "Z"]

(* ---------------------------- file names ------------------------------ *)

LogName(stem) == [stem |-> stem, ext |-> "log"]

\* Variant: the name of the day the run started on, whatever the instant.
FileNameOfStart(instant) == LogName(ToISODate(FirstInstant))

\* `${now.toISODate()}.log`
FileName(instant) == LogName(ToISODate(instant))

\* path.join(this.dir, "archive.7z"), as a name within the directory
ArchiveName == [stem |-> "archive", ext |-> "7z"]

\* file.endsWith(".log")
EndsWithLog(file) == file.ext = "log"

\* Rank of a name in the lexicographic order of Array.prototype.sort: dated
\* names by date, then "archive.7z" (a letter sorts after every digit).
NameRank(file) ==
  IF file = ArchiveName THEN OldDays + MaxRollovers + 1
  ELSE CHOOSE d \in Days : DateString(d) = file.stem

RECURSIVE SortNames(_)
SortNames(S) ==
  IF S = {} THEN <<>>
  ELSE LET first == CHOOSE f \in S : \A g \in S : NameRank(f) <= NameRank(g)
       IN  <<first>> \o SortNames(S \ {first})

RECURSIVE Filter(_, _)
\* Array.prototype.filter with the predicate given as the set of names it keeps
Filter(seq, keep) ==
  IF seq = <<>> THEN <<>>
  ELSE IF Head(seq) \in keep THEN <<Head(seq)>> \o Filter(Tail(seq), keep)
  ELSE Filter(Tail(seq), keep)

Range(seq) == {seq[i] : i \in 1 .. Len(seq)}

(* ------------------------------ state --------------------------------- *)

VARIABLES
  loggers,      \* Logger.loggers: namespace -> reference of its Logger
  heap,         \* the Logger objects constructed so far; a reference is an index
  isArchiving,  \* Logger.isArchiving
  clock,        \* the current instant, DateTime.now()
  dirExists,    \* directory -> whether it exists
  files,        \* directory -> (name of a log file in it -> its lines)
  archive,      \* directory -> (entry of its archive.7z -> the lines packed)
  console,      \* the lines the last operation wrote to process.stdout
  compactions,  \* the 7-zip update streams that have ended neither with end nor error
  started,      \* number of streams started so far
  nlogs,        \* number of log calls the host has made
  alive,        \* whether the process is still running
  env,          \* process.env: name of a variable that is set -> its value
  last          \* the last operation and its outcome

vars == <<loggers, heap, isArchiving, clock, dirExists, files, archive,
          console, compactions, started, nlogs, alive, env, last>>

(* ----------------------------- registry ------------------------------- *)

\* new Logger(namespace, options)
Logger(namespace, options) ==
  [namespace |-> namespace,
   colors    |-> IF options.colors # NoColors
                 THEN [l \in LogLevel |-> ChalkHex(options.colors[l])]
                 ELSE DEFAULT_COLORS,
   dir       |-> IF options.logDir # "" THEN options.logDir ELSE DefaultDir]

\* Variant: a lookup that never finds the namespace.
HasNever(namespace) == FALSE

\* this.loggers.has(namespace)
Has(namespace) == namespace \in DOMAIN loggers

\* Logger.getLogger(namespace, creationOptions); it returns loggers'[namespace].
getLogger(namespace, creationOptions) ==
  IF Has(namespace)
  THEN UNCHANGED <<loggers, heap>>
  ELSE /\ Len(heap) < MaxInstances
       /\ heap' = Append(heap, Logger(namespace, creationOptions))
       /\ loggers' = (namespace :> (Len(heap) + 1)) @@ loggers

\* Variant: the package name as the lookup gives it, without catch and ||.
DefaultNamespaceRaw(lookup) == lookup

\* The namespace getDefault asks for: the package name, "" when the lookup
\* throws, and "default" in place of an empty name.
DefaultNamespace(lookup) ==
  LET namespace == IF lookup = "throws" THEN "" ELSE lookup
  IN  IF namespace = "" THEN "default" ELSE namespace

(* ------------------------------- log ---------------------------------- *)

\* util.format(content) of a string content without format arguments
Body(content) == [text |-> content, count |-> 0, names |-> <<>>]

\* `[Logger] Archived ${needArchive.length} log file(s): ${needArchive.join(", ")}`
ArchivedBody(needArchive) ==
  [text |-> "[Logger] Archived", count |-> Len(needArchive), names |-> needArchive]

\* `${type} ${timestamp} [${this.namespace}]: ${util.format(content, ...format)}`
Message(inst, level, instant, body) ==
  [type      |-> ERROR_TYPES[level],
   timestamp |-> ToISO(instant),
   namespace |-> heap[inst].namespace,
   body      |-> body]

\* const color = DEFAULT_COLORS[level]
LineColor(inst, level) == DEFAULT_COLORS[level]

\* fs.readdirSync(dir): the log files and, once 7-zip has written it, the archive
ReadDir(fs, dir) ==
  DOMAIN fs[dir] \cup (IF DOMAIN archive[dir] # {} THEN {ArchiveName} ELSE {})

\* Variant: the filter without file !== filename.
NeedArchiveToo(logfiles, filename) ==
  Filter(logfiles, {f \in Range(logfiles) : EndsWithLog(f)})

\* Variant: the filter, less its first file.
NeedArchiveButOne(logfiles, filename) ==
  LET kept == Filter(logfiles, {f \in Range(logfiles) : EndsWithLog(f) /\ f # filename})
  IN  IF kept = <<>> THEN kept ELSE Tail(kept)

\* logfiles.filter(file => file.endsWith(".log") && file !== filename)
NeedArchive(logfiles, filename) ==
  Filter(logfiles, {f \in Range(logfiles) : EndsWithLog(f) /\ f # filename})

\* Variant: the test without !Logger.isArchiving.
MayArchiveUnguarded(archiving, needArchive) == Len(needArchive) > 0

\* Variant: the test without needArchive.length.
MayArchiveNothing(archiving, needArchive) == ~archiving

\* !Logger.isArchiving && needArchive.length
MayArchive(archiving, needArchive) == ~archiving /\ Len(needArchive) > 0

\* Variant: fs.writeFileSync, which replaces the file.
WriteFile(fs, dir, filename, line) ==
  [fs EXCEPT ![dir] = (filename :> <<line>>) @@ fs[dir]]

\* fs.appendFileSync(path.join(dir, filename), line)
AppendFile(fs, dir, filename, line) ==
  [fs EXCEPT ![dir] =
     (filename :> Append(IF filename \in DOMAIN fs[dir] THEN fs[dir][filename] ELSE <<>>,
                         line)) @@ fs[dir]]

IoOutcomes == {"ok", "mkdir fails", "append fails"}

\* Variant: the file operations in a try that swallows the failure.
Swallowed(io) == FALSE

\* fs.mkdirSync and fs.appendFileSync throw when they fail, and log has no
\* try around them.
Throws(io) == io # "ok"

\* Variant: mkdirSync without recursive, which fails on a directory that is there.
MkdirFailsExisting(exists, io) == exists \/ (Throws(io) /\ io = "mkdir fails")

\* fs.mkdirSync(dir, { recursive: true }) makes the directory and the missing
\* ones above it, and does nothing when it is there; it fails for a cause of
\* the environment only.
MkdirFails(exists, io) == Throws(io) /\ io = "mkdir fails"

\* The part of the state log reads and writes, at the start of an operation
\* (which has written nothing to the console yet).
Current ==
  [console |-> <<>>, dirExists |-> dirExists, files |-> files,
   isArchiving |-> isArchiving, compactions |-> compactions, started |-> started]

\* Variant: a flag of the instance, set while a compaction it started is in flight.
IsArchivingOwn(st, inst) == \E c \in st.compactions : c.owner = inst

\* Logger.isArchiving as the Logger inst reads it: a static field, one for
\* all the instances.
IsArchiving(st, inst) == st.isArchiving

\* Logger.log(level, content) on the Logger inst, run from the state st with
\* the outcome io of its file operations: the state it leaves, and what it did.
Log(inst, level, body, io, st) ==
  LET message     == Message(inst, level, clock, body)
      color       == LineColor(inst, level)
      written     == Append(st.console, ApplyColor(color, message))
      filename    == FileName(clock)
      dir         == heap[inst].dir
      made        == [st.dirExists EXCEPT ![dir] = TRUE]
      appended    == AppendFile(st.files, dir, filename, message)
      logfiles    == SortNames(ReadDir(appended, dir))
      needArchive == NeedArchive(logfiles, filename)
      start       == MayArchive(IsArchiving(st, inst), needArchive)
      stream      == [id |-> st.started + 1, owner |-> inst, dir |-> dir,
                      needArchive |-> needArchive, packed |-> FALSE]
      did         == [inst |-> inst, level |-> level, io |-> io, filename |-> filename,
                      dir |-> dir, message |-> message]
  IN  IF MkdirFails(st.dirExists[dir], io)
      THEN [st |-> [st EXCEPT !.console = written],
            did |-> did @@ [threw |-> TRUE, scanned |-> FALSE, start |-> FALSE,
                            needArchive |-> <<>>]]
      ELSE IF Throws(io) /\ io = "append fails"
      THEN [st |-> [st EXCEPT !.console = written, !.dirExists = made],
            did |-> did @@ [threw |-> TRUE, scanned |-> FALSE, start |-> FALSE,
                            needArchive |-> <<>>]]
      ELSE [st |-> [console     |-> written,
                    dirExists   |-> made,
                    files       |-> appended,
                    isArchiving |-> IF start THEN TRUE ELSE st.isArchiving,
                    compactions |-> IF start THEN st.compactions \cup {stream}
                                    ELSE st.compactions,
                    started     |-> IF start THEN st.started + 1 ELSE st.started],
            did |-> did @@ [threw |-> FALSE, scanned |-> TRUE, start |-> start,
                            needArchive |-> needArchive]]

\* Variant: a removal of every file of the directory.
RmSyncDir(fs, dir, names) == [fs EXCEPT ![dir] = <<>>]

\* Variant: a removal that stops before the last file.
RmSyncButLast(fs, dir, names) ==
  [fs EXCEPT ![dir] =
     [f \in {g \in DOMAIN fs[dir] :
                g \notin names \/ \A h \in names : NameRank(h) <= NameRank(g)} |->
        fs[dir][f]]]

\* fs.rmSync of the files names of the directory dir
RmSync(fs, dir, names) ==
  [fs EXCEPT ![dir] = [f \in (DOMAIN fs[dir]) \ names |-> fs[dir][f]]]

\* Variant: the flag cleared before the follow-up log.
SweptAndCleared(st, dir, removed) ==
  [st EXCEPT !.files = RmSync(st.files, dir, Range(removed)), !.isArchiving = FALSE]

\* The state st once the files removed are gone: the state the follow-up log
\* of the listener runs from.
Swept(st, dir, removed) ==
  [st EXCEPT !.files = RmSync(st.files, dir, Range(removed))]

\* The listener of the stream's end event, run from the state st. The rmSync of
\* the file number failAt fails (0: of none), as does that of a file that is
\* not there; io is the outcome of the file operations of the follow-up log.
OnEnd(stream, failAt, io, st) ==
  LET needArchive == stream.needArchive
      dir         == stream.dir
      bad         == {i \in 1 .. Len(needArchive) :
                        i = failAt \/ needArchive[i] \notin DOMAIN st.files[dir]}
      stop        == IF bad = {} THEN Len(needArchive) + 1
                     ELSE CHOOSE i \in bad : \A j \in bad : i <= j
      removed     == SubSeq(needArchive, 1, stop - 1)
      swept       == Swept(st, dir, removed)
      r           == Log(stream.owner, INFO, ArchivedBody(needArchive), io, swept)
      did         == [stream |-> stream, removed |-> removed]
  IN  IF stop <= Len(needArchive)
      THEN [st |-> swept,
            did |-> did @@ [threw |-> TRUE, logged |-> FALSE, cleared |-> FALSE]]
      ELSE IF r.did.threw
      THEN [st |-> r.st,
            did |-> did @@ [threw |-> TRUE, logged |-> TRUE, cleared |-> FALSE,
                            log |-> r.did]]
      ELSE [st |-> [r.st EXCEPT !.isArchiving = FALSE],
            did |-> did @@ [threw |-> FALSE, logged |-> TRUE, cleared |-> TRUE,
                            log |-> r.did]]

\* What 7-zip's update leaves in the archive of the stream's directory: the
\* entries it had, and one entry per input file with the lines read from it.
Update(stream) ==
  [archive EXCEPT ![stream.dir] =
     [f \in (DOMAIN archive[stream.dir]) \cup Range(stream.needArchive) |->
        IF f \in Range(stream.needArchive) THEN files[stream.dir][f]
        ELSE archive[stream.dir][f]]]

\* The state st becomes the state of the program.
Becomes(st) ==
  /\ console' = st.console
  /\ dirExists' = st.dirExists
  /\ files' = st.files
  /\ isArchiving' = st.isArchiving
  /\ compactions' = st.compactions
  /\ started' = st.started

\* An exception thrown out of a listener of the stream has no caller to catch
\* it: it ends the process, unless the host handles uncaught exceptions.
AfterThrow(threw) == IF threw THEN BOOLEAN ELSE {TRUE}

(* ------------------------------ getenv -------------------------------- *)

\* The names of the environment variables the host asks for.
Names == {"TEST_KEY"}

\* The characters of a value: digits, a sign, the point, a blank, a letter.
Chars == {"0", "1", "-", ".", " ", "f"}

\* A value is the sequence of its characters.
RECURSIVE Texts(_)
Texts(n) ==
  IF n = 0 THEN {<<>>}
  ELSE Texts(n - 1) \cup {Append(t, c) : t \in {u \in Texts(n - 1) : Len(u) = n - 1},
                                        c \in Chars}

Values == Texts(MaxLen)

IsDigit(c) == \E i \in 1 .. Len(Digit) : Digit[i] = c

DigitValue(c) == (CHOOSE i \in 1 .. Len(Digit) : Digit[i] = c) - 1

\* The text without its leading white space.
RECURSIVE TrimStart(_)
TrimStart(text) ==
  IF text # <<>> /\ Head(text) = " " THEN TrimStart(Tail(text)) ELSE text

\* The longest prefix of the text made of digits.
RECURSIVE TakeDigits(_)
TakeDigits(text) ==
  IF text # <<>> /\ IsDigit(Head(text)) THEN <<Head(text)>> \o TakeDigits(Tail(text))
  ELSE <<>>

\* The digits without their trailing zeros.
RECURSIVE DropZeros(_)
DropZeros(digits) ==
  IF digits # <<>> /\ digits[Len(digits)] = "0"
  THEN DropZeros(SubSeq(digits, 1, Len(digits) - 1))
  ELSE digits

RECURSIVE DigitsValue(_)
DigitsValue(digits) ==
  IF digits = <<>> THEN 0
  ELSE 10 * DigitsValue(SubSeq(digits, 1, Len(digits) - 1))
         + DigitValue(digits[Len(digits)])

NaN == [nan |-> TRUE]

\* The number with the sign and the digits before and after the point: the
\* integer num over 10 to the power places.
DecimalNumber(neg, int, frac) ==
  [nan |-> FALSE, neg |-> neg, num |-> DigitsValue(int \o DropZeros(frac)),
   places |-> Len(DropZeros(frac))]

\* Number.parseFloat(value): the number that the longest prefix of the trimmed
\* text which is a decimal literal stands for, NaN when no prefix is one. (The
\* characters of an exponent and of Infinity are not among Chars.)
ParseFloat(value) ==
  LET text     == TrimStart(value)
      signed   == text # <<>> /\ Head(text) \in {"-", "+"}
      neg      == text # <<>> /\ Head(text) = "-"
      unsigned == IF signed THEN Tail(text) ELSE text
      int      == TakeDigits(unsigned)
      rest     == SubSeq(unsigned, Len(int) + 1, Len(unsigned))
      frac     == IF rest # <<>> /\ Head(rest) = "." THEN TakeDigits(Tail(rest))
                  ELSE <<>>
  IN  IF int = <<>> /\ frac = <<>> THEN NaN ELSE DecimalNumber(neg, int, frac)

\* Variant: no test for NaN.
IsNaNNever(parsed) == FALSE

\* Number.isNaN(parsed)
IsNaN(parsed) == parsed.nan

Null == [type |-> "null"]

\* getenv(name, number, assert): whether it throws and, when it does not, what
\* it returns.
getenv(name, number, assert) ==
  IF name \notin DOMAIN env
  THEN IF assert THEN [threw |-> TRUE, returned |-> Null]
       ELSE [threw |-> FALSE, returned |-> Null]
  ELSE LET value  == env[name]
           parsed == ParseFloat(value)
       IN  IF number
           THEN IF IsNaN(parsed)
                THEN IF assert THEN [threw |-> TRUE, returned |-> Null]
                     ELSE [threw |-> FALSE, returned |-> Null]
                ELSE [threw |-> FALSE,
                      returned |-> [type |-> "number", number |-> parsed]]
           ELSE [threw |-> FALSE, returned |-> [type |-> "string", string |-> value]]

(* ------------------------------ actions ------------------------------- *)

OldLine(d) ==
  [type |-> "I", timestamp |-> ToISO([day |-> d, time |-> 1]), namespace |-> "remoji",
   body |-> Body("old")]

\* The log files an earlier run has left in a directory: one per old day.
OldFiles == [f \in {LogName(DateString(d)) : d \in 0 .. (OldDays - 1)} |->
               <<OldLine(NameRank(f))>>]

NoFiles == <<>>

\* The program after construction: no logger yet, no stream, the flag clear;
\* each directory is absent or holds the log files of the old days.
InitRegistry ==
  /\ loggers = <<>>
  /\ heap = <<>>
  /\ isArchiving = FALSE
  /\ clock = FirstInstant
  /\ files \in [Dirs -> {NoFiles, OldFiles}]
  /\ dirExists = [d \in Dirs |-> files[d] # NoFiles]
  /\ archive = [d \in Dirs |-> <<>>]
  /\ console = <<>>
  /\ compactions = {}
  /\ started = 0
  /\ nlogs = 0
  /\ alive = TRUE
  /\ env = <<>>
  /\ last = [op |-> "init"]

GetLogger(namespace, creationOptions) ==
  /\ alive
  /\ getLogger(namespace, creationOptions)
  /\ last' = [op |-> "getLogger", namespace |-> namespace, options |-> creationOptions,
              returned |-> loggers'[namespace]]
  /\ console' = <<>>
  /\ UNCHANGED <<env, isArchiving, clock, dirExists, files, archive, compactions,
                 started, nlogs, alive>>

GetDefault(lookup) ==
  /\ alive
  /\ getLogger(DefaultNamespace(lookup), NoOptions)
  /\ last' = [op |-> "getDefault", lookup |-> lookup,
              namespace |-> DefaultNamespace(lookup),
              returned |-> loggers'[DefaultNamespace(lookup)]]
  /\ console' = <<>>
  /\ UNCHANGED <<env, isArchiving, clock, dirExists, files, archive, compactions,
                 started, nlogs, alive>>

LogCall(inst, level, content, io) ==
  /\ alive
  /\ nlogs < MaxLogs
  /\ LET r == Log(inst, level, Body(content), io, Current)
     IN  /\ Becomes(r.st)
         /\ last' = [op |-> "log", log |-> r.did]
  /\ nlogs' = nlogs + 1
  /\ UNCHANGED <<env, loggers, heap, clock, archive, alive>>

\* Time passes within the day: the clock shows a later instant of the same day.
Tick ==
  /\ alive
  /\ \E instant \in Instants :
       instant.day = clock.day /\ Later(clock, instant) /\ clock' = instant
  /\ last' = [op |-> "tick"]
  /\ console' = <<>>
  /\ UNCHANGED <<env, loggers, heap, isArchiving, dirExists, files, archive,
                 compactions, started, nlogs, alive>>

\* Variant: a clock that is set back by a day.
RolloverBack ==
  /\ alive
  /\ clock.day > 0
  /\ clock' = [day |-> clock.day - 1, time |-> 1]
  /\ last' = [op |-> "tick"]
  /\ console' = <<>>
  /\ UNCHANGED <<env, loggers, heap, isArchiving, dirExists, files, archive,
                 compactions, started, nlogs, alive>>

\* The UTC day changes: the clock shows the first instant of the next day.
Rollover ==
  /\ alive
  /\ clock.day < OldDays + MaxRollovers
  /\ clock' = [day |-> clock.day + 1, time |-> 1]
  /\ last' = [op |-> "tick"]
  /\ console' = <<>>
  /\ UNCHANGED <<env, loggers, heap, isArchiving, dirExists, files, archive,
                 compactions, started, nlogs, alive>>

\* 7-zip reads the input files of a stream and writes them to the archive.
Compress(stream) ==
  /\ alive
  /\ stream \in compactions
  /\ ~stream.packed
  /\ Range(stream.needArchive) \subseteq DOMAIN files[stream.dir]
  /\ archive' = Update(stream)
  /\ compactions' = (compactions \ {stream}) \cup {[stream EXCEPT !.packed = TRUE]}
  /\ console' = <<>>
  /\ last' = [op |-> "compress", stream |-> stream]
  /\ UNCHANGED <<env, loggers, heap, isArchiving, clock, dirExists, files, started, nlogs,
                 alive>>

\* The stream emits end: 7-zip has exited with success, and the listener runs.
StreamEnd(stream, failAt, io) ==
  /\ alive
  /\ stream \in compactions
  /\ stream.packed
  /\ LET r == OnEnd(stream, failAt, io,
                    [Current EXCEPT !.compactions = compactions \ {stream}])
     IN  /\ Becomes(r.st)
         /\ alive' \in AfterThrow(r.did.threw)
         /\ last' = [op |-> "end", end |-> r.did]
  /\ UNCHANGED <<env, loggers, heap, clock, archive, nlogs>>

\* The stream emits error: 7-zip has failed. No listener is registered for
\* the event, so the emitter throws it to the host.
StreamError(stream) ==
  /\ alive
  /\ stream \in compactions
  /\ compactions' = compactions \ {stream}
  /\ alive' \in AfterThrow(TRUE)
  /\ console' = <<>>
  /\ last' = [op |-> "error", stream |-> stream]
  /\ UNCHANGED <<env, loggers, heap, isArchiving, clock, dirExists, files, archive, started,
                 nlogs>>

\* The registry of a host that has called getLogger("remoji") and
\* getLogger("db", CustomOptions) at start-up.
Init ==
  /\ loggers = ("db" :> 2) @@ ("remoji" :> 1)
  /\ heap = <<Logger("remoji", NoOptions), Logger("db", CustomOptions)>>
  /\ isArchiving = FALSE
  /\ clock = FirstInstant
  /\ files \in [Dirs -> {NoFiles, OldFiles}]
  /\ dirExists = [d \in Dirs |-> files[d] # NoFiles]
  /\ archive = [d \in Dirs |-> <<>>]
  /\ console = <<>>
  /\ compactions = {}
  /\ started = 0
  /\ nlogs = 0
  /\ alive = TRUE
  /\ env = <<>>
  /\ last = [op |-> "init"]

\* The host's calls of the registry.
NextRegistry ==
  \/ \E namespace \in Namespaces, o \in LoggerOptions : GetLogger(namespace, o)
  \/ \E lookup \in PackageLookups : GetDefault(lookup)

SpecRegistry == InitRegistry /\ [][NextRegistry]_vars

\* The host's calls of log on the loggers it holds, the change of day and 7-zip.
Next ==
  \/ \E inst \in 1 .. Len(heap), level \in Levels, content \in Contents,
        io \in IoOutcomes : LogCall(inst, level, content, io)
  \/ Rollover
  \/ \E stream \in compactions : Compress(stream)
  \/ \E stream \in compactions, failAt \in 0 .. OldDays + MaxRollovers,
        io \in IoOutcomes : StreamEnd(stream, failAt, io)
  \/ \E stream \in compactions : StreamError(stream)

Spec == Init /\ [][Next]_vars

\* The same with the instants of a day told apart and file operations that
\* succeed.
NextTimes ==
  \/ \E inst \in 1 .. Len(heap), level \in Levels, content \in Contents :
        LogCall(inst, level, content, "ok")
  \/ Tick
  \/ Rollover
  \/ \E stream \in compactions : Compress(stream)
  \/ \E stream \in compactions : StreamEnd(stream, 0, "ok")

SpecTimes == Init /\ [][NextTimes]_vars

\* process.env[name] = value
Setenv(name, value) ==
  /\ alive
  /\ env' = (name :> value) @@ env
  /\ last' = [op |-> "setenv", name |-> name]
  /\ console' = <<>>
  /\ UNCHANGED <<loggers, heap, isArchiving, clock, dirExists, files, archive,
                 compactions, started, nlogs, alive>>

Getenv(name, number, assert) ==
  /\ alive
  /\ last' = [op |-> "getenv", name |-> name, number |-> number, assert |-> assert,
              result |-> getenv(name, number, assert)]
  /\ console' = <<>>
  /\ UNCHANGED <<loggers, heap, isArchiving, clock, dirExists, files, archive,
                 compactions, started, nlogs, alive, env>>

\* The program before any logger is asked for, its directories absent.
InitEnv == InitRegistry /\ \A d \in Dirs : files[d] = NoFiles

\* The host sets variables and reads them.
NextEnv ==
  \/ \E name \in Names, value \in Values : Setenv(name, value)
  \/ \E name \in Names, number \in BOOLEAN, assert \in BOOLEAN :
        Getenv(name, number, assert)

SpecEnv == InitEnv /\ [][NextEnv]_vars

(* ------------------------------ claims -------------------------------- *)

\* The directory, the file of the current date and the earlier lines of that
\* file, for a call of log on the Logger inst.
DirOf(inst) == heap[inst].dir

Today == FileName(clock)

\* What is left of a console line once its colour codes are stripped.
StripColor(line) == line.text

LinesOf(fs, dir, file) == IF file \in DOMAIN fs[dir] THEN fs[dir][file] ELSE <<>>

\* The .log files of a directory other than the file of the current date.
OtherLogs(fs, dir) == {f \in DOMAIN fs[dir] : EndsWithLog(f) /\ f # Today}

\* C1: a namespace once registered keeps its instance for good: no call
\* remaps or removes it or changes the instance, the registry holds exactly one
\* instance per namespace, and every getLogger/getDefault returns the instance
\* registered for the namespace it asked for, the one the first call created.
C1_FirstCallWins ==
  [][/\ \A ns \in DOMAIN loggers :
          /\ ns \in DOMAIN loggers'
          /\ loggers'[ns] = loggers[ns]
          /\ heap'[loggers[ns]] = heap[loggers[ns]]
     /\ Len(heap') = Cardinality(DOMAIN loggers')
     /\ \A ns \in DOMAIN loggers' : heap'[loggers'[ns]].namespace = ns
     /\ last'.op \in {"getLogger", "getDefault"} =>
          /\ last'.returned = loggers'[last'.namespace]
          /\ last'.namespace \in DOMAIN loggers =>
               last'.returned = loggers[last'.namespace]]_vars

\* A getLogger call without options has returned the instance that an earlier
\* call created with a custom directory and custom colours.
C1_Witness ==
  /\ last.op = "getLogger"
  /\ last.options = NoOptions
  /\ heap[last.returned].dir = "alt"
  /\ heap[last.returned].colors # DEFAULT_COLORS

\* C2: at most one compaction is in flight, and no file is an input of two
\* compactions in flight.
C2_OneCompaction ==
  /\ Cardinality(compactions) <= 1
  /\ \A c1, c2 \in compactions :
       c1 # c2 /\ c1.dir = c2.dir => Range(c1.needArchive) \cap Range(c2.needArchive) = {}

\* A log call has found archivable files while a compaction was in flight and
\* has started none.
C2_Witness ==
  /\ compactions # {}
  /\ last.op = "log"
  /\ last.log.needArchive # <<>>
  /\ ~last.log.start

\* C3: the input set of a compaction a log call starts does not contain the
\* file named for the UTC date of that call, which is in the directory.
C3_TodayExcluded ==
  [][\A c \in compactions' :
       c.id > started =>
         /\ FileName(clock') \in DOMAIN files'[c.dir]
         /\ FileName(clock') \notin Range(c.needArchive)]_vars

\* After a day change a log call has started a compaction of the file that
\* this run wrote on the day before.
C3_Witness ==
  /\ last.op = "log"
  /\ last.log.start
  /\ DayOf(clock) > OldDays
  /\ LogName(DateString(OldDays)) \in Range(last.log.needArchive)
  /\ Today \in DOMAIN files[last.log.dir]

\* C4: when the compression of a started compaction fails, the flag is clear
\* afterwards.
C4_FlagClearedOnError == [][last'.op = "error" => ~isArchiving']_vars

\* C5: a log call whose file operations succeed writes one line to the console
\* and appends that line, colour aside, to the file of the current date of its
\* directory; every other log file is as it was (the follow-up call of the end
\* listener comes after the removal of the compacted files).
C5_OneLineEach ==
  [][/\ last'.op = "log" /\ last'.log.io = "ok" =>
          LET dir == DirOf(last'.log.inst)
          IN  /\ Len(console') = 1
              /\ Today \in DOMAIN files'[dir]
              /\ files'[dir][Today] =
                   Append(LinesOf(files, dir, Today), StripColor(console'[1]))
              /\ \A d \in Dirs :
                   /\ DOMAIN files'[d] \ {Today} = DOMAIN files[d] \ {Today}
                   /\ d # dir => DOMAIN files'[d] = DOMAIN files[d]
                   /\ \A f \in DOMAIN files[d] :
                        <<d, f>> # <<dir, Today>> => files'[d][f] = files[d][f]
     /\ last'.op = "end" /\ last'.end.logged /\ last'.end.log.io = "ok" =>
          LET dir == DirOf(last'.end.stream.owner)
          IN  /\ Len(console') = 1
              /\ Today \in DOMAIN files'[dir]
              /\ files'[dir][Today] =
                   Append(LinesOf(files, dir, Today), StripColor(console'[1]))
              /\ \A d \in Dirs : \A f \in DOMAIN files'[d] :
                   <<d, f>> # <<dir, Today>> =>
                     f \in DOMAIN files[d] /\ files'[d][f] = files[d][f]]_vars

\* A log call has appended its line to a file that already held a line.
C5_Witness ==
  /\ last.op = "log"
  /\ last.log.io = "ok"
  /\ Len(files[last.log.dir][Today]) >= 2
  /\ Len(console) = 1

\* C6: when the end listener of a compaction has run to its end, no input file
\* of the compaction is in the directory and each has an entry in the archive.
C6_CompactedRemoved ==
  [][last'.op = "end" /\ ~last'.end.threw =>
       \A f \in Range(last'.end.stream.needArchive) :
         /\ f \notin DOMAIN files'[last'.end.stream.dir]
         /\ f \in DOMAIN archive'[last'.end.stream.dir]]_vars

\* A compaction of all the old files of a directory has completed.
C6_Witness ==
  /\ last.op = "end"
  /\ ~last.end.threw
  /\ Len(last.end.stream.needArchive) >= OldDays
  /\ DOMAIN archive[last.end.stream.dir] = Range(last.end.stream.needArchive)

\* C7: the console line of a log call at a level has the colour that the
\* colour map of the instance gives to that level.
C7_InstanceColours ==
  [][last'.op = "log" =>
       console'[1].color = heap[last'.log.inst].colors[last'.log.level].hex]_vars

\* C8: a log call whose mkdir or append fails throws to its caller, scans
\* nothing, appends nothing, starts no compaction and leaves the flag as it
\* was; in the end listener the failure of the follow-up call leaves the
\* listener, too.
C8_FailurePropagates ==
  [][/\ last'.op = "log" /\ last'.log.io # "ok" =>
          /\ last'.log.threw
          /\ ~last'.log.scanned
          /\ files' = files
          /\ compactions' = compactions
          /\ started' = started
          /\ isArchiving' = isArchiving
     /\ last'.op = "end" /\ last'.end.logged /\ last'.end.log.io # "ok" =>
          /\ last'.end.log.threw
          /\ last'.end.threw
          /\ ~last'.end.log.scanned
          /\ started' = started
          /\ isArchiving' = isArchiving]_vars

\* The append of a log call has failed in a directory with archivable files
\* while the flag was clear, and no compaction has been started.
C8_Witness ==
  /\ last.op = "log"
  /\ last.log.io = "append fails"
  /\ last.log.threw
  /\ OtherLogs(files, last.log.dir) # {}
  /\ ~isArchiving
  /\ started = 0

\* C9: a log call that finds the flag clear and .log files other than today's
\* in its directory starts one compaction, whose inputs are all of them, and
\* sets the flag; when the end listener has run to its end none of the inputs
\* is left in the directory.
C9_StartsOneForAll ==
  [][/\ /\ last'.op = "log"
        /\ last'.log.io = "ok"
        /\ ~isArchiving
        /\ OtherLogs(files, DirOf(last'.log.inst)) # {}
        => /\ isArchiving'
           /\ started' = started + 1
           /\ \E c \in compactions' :
                /\ compactions' = compactions \cup {c}
                /\ c \notin compactions
                /\ c.id = started'
                /\ c.dir = DirOf(last'.log.inst)
                /\ Range(c.needArchive) = OtherLogs(files, DirOf(last'.log.inst))
                /\ Len(c.needArchive) = Cardinality(Range(c.needArchive))
     /\ last'.op = "end" /\ ~last'.end.threw =>
          Range(last'.end.stream.needArchive)
            \cap DOMAIN files'[last'.end.stream.dir] = {}]_vars

\* A log call on the logger of the custom directory has started the
\* compaction of all the old files there.
C9_Witness ==
  /\ last.op = "log"
  /\ last.log.start
  /\ last.log.dir = "alt"
  /\ Len(last.log.needArchive) = OldDays
  /\ isArchiving
  /\ Cardinality(compactions) = 1

\* A successful log call after which today's file is the only log file of its
\* directory.
OnlyTodayLogged ==
  /\ last'.op = "log"
  /\ last'.log.io = "ok"
  /\ DOMAIN files'[DirOf(last'.log.inst)] = {Today}

\* A directory with no log file but today's, no archive and no compaction.
Fresh(fs, arch, streams, dir) ==
  /\ DOMAIN fs[dir] \subseteq {Today}
  /\ DOMAIN arch[dir] = {}
  /\ \A c \in streams : c.dir # dir

\* C10 as stated: such a call starts no compaction, leaves the flag clear and
\* creates no archive.
C10_LeavesFlagClear ==
  [][OnlyTodayLogged =>
       /\ compactions' = compactions
       /\ started' = started
       /\ ~isArchiving'
       /\ archive' = archive]_vars

\* C10, amended: such a call starts no compaction, leaves the flag as it was
\* and creates no archive; and within one UTC day a directory with no log file
\* but today's, no archive and no compaction stays so, whatever is called.
C10_NoArchiveOfToday ==
  [][/\ OnlyTodayLogged =>
          /\ compactions' = compactions
          /\ started' = started
          /\ isArchiving' = isArchiving
          /\ archive' = archive
     /\ \A d \in Dirs :
          Fresh(files, archive, compactions, d) /\ DayOf(clock') = DayOf(clock) =>
            Fresh(files', archive', compactions', d)]_vars

\* Two log calls have been made in a directory that was empty, on one day.
C10_Witness ==
  /\ last.op = "log"
  /\ last.log.io = "ok"
  /\ nlogs = 2
  /\ DOMAIN files[last.log.dir] = {Today}
  /\ Len(files[last.log.dir][Today]) = 2
  /\ DOMAIN archive[last.log.dir] = {}
  /\ compactions = {}

\* C11: a log call on a directory that is there fails only when a file
\* operation fails for a cause of the environment; whether it fails or not,
\* every file that was in a directory is there afterwards with the lines it
\* had, but for the file of the current date of the call's directory, which
\* has the lines it had and then the line of the call.
C11_ExistingDirKept ==
  [][last'.op = "log" /\ dirExists[DirOf(last'.log.inst)] =>
       LET dir == DirOf(last'.log.inst)
       IN  /\ last'.log.threw <=> last'.log.io # "ok"
           /\ dirExists'[dir]
           /\ \A d \in Dirs : \A f \in DOMAIN files[d] :
                /\ f \in DOMAIN files'[d]
                /\ IF d = dir /\ f = Today /\ ~last'.log.threw
                   THEN files'[d][f] = Append(files[d][f], last'.log.message)
                   ELSE files'[d][f] = files[d][f]]_vars

\* A log call has succeeded in a directory that held old log files and a file
\* of the current date; the old files are there with the line they had.
C11_Witness ==
  /\ last.op = "log"
  /\ ~last.log.threw
  /\ Len(files[last.log.dir][Today]) = 2
  /\ \A f \in DOMAIN OldFiles :
       f \in DOMAIN files[last.log.dir] /\ files[last.log.dir][f] = OldFiles[f]

\* Whether the operation l has run log, and what that call did: a call of the
\* host, or the follow-up call of the end listener.
Logged(l) == l.op = "log" \/ (l.op = "end" /\ l.end.logged)

LogOf(l) == IF l.op = "log" THEN l.log ELSE l.end.log

\* C12: a log call stamps its line with the instant of the call and appends it
\* to the file named for the date of that same instant; afterwards the lines
\* of its directory stamped with that date are all in that file, and every
\* line stamped with another date is in another file, named for its own date.
C12_FileOfTheDay ==
  [][Logged(last') /\ ~LogOf(last').threw =>
       LET did  == LogOf(last')
           date == did.message.timestamp.date
           fs   == files'[did.dir]
       IN  /\ did.message.timestamp = ToISO(clock')
           /\ did.filename = LogName(date)
           /\ did.filename \in DOMAIN fs
           /\ fs[did.filename][Len(fs[did.filename])] = did.message
           /\ \A f \in DOMAIN fs : \A i \in 1 .. Len(fs[f]) :
                /\ f = LogName(fs[f][i].timestamp.date)
                /\ fs[f][i].timestamp.date = date <=> f = did.filename]_vars

\* Two calls at two instants of one day have appended to one file, and a call
\* on the next day has appended to another.
C12_Witness ==
  /\ Logged(last)
  /\ DayOf(clock) > OldDays
  /\ LET fs  == files[LogOf(last).dir]
         old == FileName(FirstInstant)
     IN  /\ old \in DOMAIN fs
         /\ Len(fs[old]) = 2
         /\ fs[old][1].timestamp.date = fs[old][2].timestamp.date
         /\ fs[old][1].timestamp.time # fs[old][2].timestamp.time
         /\ Today # old
         /\ Today \in DOMAIN fs
         /\ fs[Today][1].timestamp.date # fs[old][1].timestamp.date

\* C13: getDefault returns a Logger whatever the lookup of the package name
\* does: the instance registered for "default" when the lookup throws or gives
\* an empty name, for the package name otherwise. It is the instance getLogger
\* returns for that namespace: the one registered before the call if there is
\* one, and the one the call before it returned if that was for the same
\* namespace.
C13_DefaultNeverFails ==
  [][last'.op = "getDefault" =>
       LET namespace == IF last'.lookup \in {"throws", ""} THEN "default"
                        ELSE last'.lookup
       IN  /\ last'.namespace = namespace
           /\ namespace \in DOMAIN loggers'
           /\ last'.returned = loggers'[namespace]
           /\ heap'[last'.returned].namespace = namespace
           /\ namespace \in DOMAIN loggers =>
                last'.returned = loggers[namespace] /\ heap' = heap
           /\ last.op \in {"getLogger", "getDefault"} /\ last.namespace = namespace =>
                last'.returned = last.returned]_vars

\* getDefault, its lookup throwing, has returned the instance of "default"
\* that an earlier getDefault had created, next to that of the package name.
C13_Witness ==
  /\ last.op = "getDefault"
  /\ last.lookup = "throws"
  /\ heap[last.returned].namespace = "default"
  /\ last.returned < Len(heap)
  /\ "remoji" \in DOMAIN loggers

\* A text is a decimal literal: an optional sign, then digits with at most
\* one point among them, one digit at least.
IsDecimalLiteral(text) ==
  LET body == IF text # <<>> /\ Head(text) \in {"-", "+"} THEN Tail(text) ELSE text
  IN  /\ \A i \in 1 .. Len(body) : IsDigit(body[i]) \/ body[i] = "."
      /\ \E i \in 1 .. Len(body) : IsDigit(body[i])
      /\ Cardinality({i \in 1 .. Len(body) : body[i] = "."}) <= 1

\* A text parses as a number: after its leading blanks it starts with a
\* decimal literal.
ParsesAsNumber(text) ==
  \E b \in 0 .. Len(text), e \in 1 .. Len(text) :
    /\ b < e
    /\ \A i \in 1 .. b : text[i] = " "
    /\ IsDecimalLiteral(SubSeq(text, b + 1, e))

\* C14: getenv fails exactly when the variable is unset, or a number is asked
\* for and the value does not parse as one; it then throws when assert is
\* true and returns null when it is false. Otherwise it throws nothing and
\* returns the value as it is, or the number parsed from it when a number is
\* asked for, and never null nor NaN.
C14_FailsExactlyWhen ==
  [][last'.op = "getenv" =>
       LET name   == last'.name
           result == last'.result
           fails  == \/ name \notin DOMAIN env
                     \/ last'.number /\ ~ParsesAsNumber(env[name])
       IN  /\ result.threw <=> fails /\ last'.assert
           /\ ~result.threw /\ result.returned = Null <=> fails /\ ~last'.assert
           /\ ~fails /\ ~last'.number =>
                result.returned = [type |-> "string", string |-> env[name]]
           /\ ~fails /\ last'.number =>
                /\ result.returned.type = "number"
                /\ result.returned.number = ParseFloat(env[name])
                /\ ~result.returned.number.nan]_vars

\* getenv has returned the number 0.1 for a value that starts with .1 and
\* goes on with a letter, assert being true.
C14_Witness ==
  /\ last.op = "getenv"
  /\ last.number /\ last.assert
  /\ last.name \in DOMAIN env
  /\ env[last.name] = <<".", "1", "f">>
  /\ ~last.result.threw
  /\ last.result.returned.number = [nan |-> FALSE, neg |-> FALSE, num |-> 1, places |-> 1]

\* C15: when the end listener of a compaction runs to its end, the flag being
\* set, every input file is removed, then one line of level INFO that tells
\* the number and the names of the input files is logged through log of the
\* logger that started the compaction, then the flag is cleared. The
\* follow-up log scans the directory without the input files and with the
\* flag set, so it starts no compaction, whatever it finds.
C15_RemoveLogClear ==
  [][last'.op = "end" /\ ~last'.end.threw =>
       LET stream == last'.end.stream
           log    == last'.end.log
       IN  /\ isArchiving
           /\ last'.end.removed = stream.needArchive
           /\ Range(stream.needArchive) \cap DOMAIN files'[stream.dir] = {}
           /\ last'.end.logged
           /\ Len(console') = 1
           /\ log.inst = stream.owner
           /\ log.level = INFO
           /\ log.message.body = ArchivedBody(stream.needArchive)
           /\ StripColor(console'[1]) = log.message
           /\ files'[stream.dir][Today] =
                Append(LinesOf(files, stream.dir, Today), log.message)
           /\ log.scanned
           /\ Range(log.needArchive) \cap Range(stream.needArchive) = {}
           /\ ~log.start
           /\ started' = started
           /\ compactions' = compactions \ {stream}
           /\ last'.end.cleared
           /\ ~isArchiving']_vars

\* A compaction has completed after a day change: its follow-up log has found
\* the file of the day before and has started nothing; the flag is clear.
C15_Witness ==
  /\ last.op = "end"
  /\ ~last.end.threw
  /\ last.end.log.needArchive # <<>>
  /\ ~last.end.log.start
  /\ OtherLogs(files, last.end.stream.dir) # {}
  /\ compactions = {}
  /\ ~isArchiving

\* C16: when the end listener of a compaction has run, the flag is clear, also
\* when the removal of an input file or the follow-up log has failed.
C16_FlagClearedOnEveryExit == [][last'.op = "end" => ~isArchiving']_vars

C18_OneFlagForAll ==
  [][/\ compactions' # {} => isArchiving'
     /\ last'.op = "log" /\ isArchiving =>
          /\ ~last'.log.start
          /\ compactions' = compactions
          /\ started' = started
          /\ isArchiving'
          /\ archive' = archive
          /\ \A d \in Dirs : DOMAIN files[d] \subseteq DOMAIN files'[d]
     /\ \A c \in compactions' \ compactions :
          \/ /\ c \in {[b EXCEPT !.packed = TRUE] : b \in compactions}
             /\ last'.op = "compress"
          \/ /\ last'.op = "log"
             /\ ~isArchiving
             /\ c.owner = last'.log.inst
             /\ c.dir = DirOf(c.owner)
     /\ \A d \in Dirs : \A f \in DOMAIN files[d] \ DOMAIN files'[d] :
          /\ last'.op = "end"
          /\ last'.end.stream \in compactions
          /\ last'.end.stream.dir = d
          /\ f \in Range(last'.end.stream.needArchive)]_vars

\* While a compaction that the logger of one namespace started in its
\* directory is in flight, a log call on the logger of another namespace has
\* found all the old files of its own directory and has started nothing.
C18_Witness ==
  /\ last.op = "log"
  /\ ~last.log.threw
  /\ ~last.log.start
  /\ Len(last.log.needArchive) = OldDays
  /\ isArchiving
  /\ DOMAIN OldFiles \subseteq DOMAIN files[last.log.dir]
  /\ DOMAIN archive[last.log.dir] = {}
  /\ \E c \in compactions :
       /\ c.owner # last.log.inst
       /\ heap[c.owner].namespace # heap[last.log.inst].namespace
       /\ c.dir # last.log.dir

\* C19: a log call of the host made while the flag is set, its file
\* operations succeeding, returns in the same step with its line on the
\* console and at the end of the file of the current date, whatever the state
\* of the compaction; and when a compaction has failed, by an error of the
\* stream or an exception in its end listener, the process is still running,
\* so that the host can go on logging.
C19_LoggingGoesOn ==
  [][/\ last'.op = "log" /\ last'.log.io = "ok" /\ isArchiving =>
          LET dir == DirOf(last'.log.inst)
          IN  /\ ~last'.log.threw
              /\ Len(console') = 1
              /\ StripColor(console'[1]) = last'.log.message
              /\ files'[dir][Today] = Append(LinesOf(files, dir, Today), last'.log.message)
     /\ last'.op = "error" \/ (last'.op = "end" /\ last'.end.threw) => alive']_vars

\* C20: no step loses a line: every line that is in a log file or in the
\* archive of a directory before a step is in one of them after it, and the
\* line a log call appends is among them. Entries of the archive stay, and a
\* file leaves a directory only in the end listener of a compaction that lists
\* it as an input; it is not the file of the current date, and the archive
\* holds all its lines.
C20_NoLineLost ==
  [][/\ \A d \in Dirs :
          /\ \A f \in DOMAIN files[d] : \A i \in 1 .. Len(files[d][f]) :
               \/ /\ f \in DOMAIN files'[d]
                  /\ i <= Len(files'[d][f])
                  /\ files'[d][f][i] = files[d][f][i]
               \/ /\ f \in DOMAIN archive'[d]
                  /\ i <= Len(archive'[d][f])
                  /\ archive'[d][f][i] = files[d][f][i]
          /\ \A f \in DOMAIN archive[d] : \A i \in 1 .. Len(archive[d][f]) :
               /\ f \in DOMAIN archive'[d]
               /\ i <= Len(archive'[d][f])
               /\ archive'[d][f][i] = archive[d][f][i]
          /\ \A f \in DOMAIN files[d] \ DOMAIN files'[d] :
               /\ last'.op = "end"
               /\ last'.end.stream.dir = d
               /\ f \in Range(last'.end.stream.needArchive)
               /\ f # Today
               /\ archive'[d][f] = files[d][f]
     /\ Logged(last') /\ ~LogOf(last').threw =>
          LET did == LogOf(last')
          IN  /\ did.filename \in DOMAIN files'[did.dir]
              /\ files'[did.dir][did.filename][Len(files'[did.dir][did.filename])]
                   = did.message]_vars

\* A compaction has completed in a directory in which two log calls were made
\* meanwhile: the old files are gone and the archive holds their lines, and
\* the file of the current date holds the two lines and that of the follow-up.
C20_Witness ==
  /\ last.op = "end"
  /\ ~last.end.threw
  /\ LET dir == last.end.stream.dir
     IN  /\ \A f \in DOMAIN OldFiles :
              /\ f \notin DOMAIN files[dir]
              /\ f \in DOMAIN archive[dir]
              /\ archive[dir][f] = OldFiles[f]
         /\ Today \in DOMAIN files[dir]
         /\ Len(files[dir][Today]) = 3

====
